---- MODULE Spec2Model ----
(***************************************************************************)
(* A model of src/app.py: the invoice counter file, the order-text         *)
(* segmentation, generate_invoice (outbound call, JSON parsing with one    *)
(* fallback, delivery-summary formatting), create_pdf and the index()      *)
(* request handler.                                                        *)
(*                                                                         *)
(* Texts are sequences of tokens.  In an order text the token "Name"       *)
(* stands for the literal "✅Name" and " " for one whitespace character.   *)
(* In the counter file every token is one character.                       *)
(***************************************************************************)
EXTENDS Integers, Sequences, FiniteSets, TLC

\* ------------------------------------------------------------------------
\* Bounds of the model
\* ------------------------------------------------------------------------

\* An order text is a concatenation of at most MaxChunks chunks.
MaxChunks == 3

\* A model response is at most MaxContent tokens long.
MaxContent == 4

\* ------------------------------------------------------------------------
\* Program constants
\* ------------------------------------------------------------------------

\* f.write("2500")
StartNumber == 2500

\* invoice_number = 2501  # fallback if the file is corrupted
FallbackNumber == 2501

\* ------------------------------------------------------------------------
\* Strings and integers (str(), int(), str.strip(), str.split())
\* ------------------------------------------------------------------------

Digits == <<"0", "1", "2", "3", "4", "5", "6", "7", "8", "9">>

IsDigit(c) == \E d \in 1..10 : Digits[d] = c

DigitVal(c) == (CHOOSE d \in 1..10 : Digits[d] = c) - 1

IsSpace(c) == c \in {" ", "\n", "\t"}

\* str(n) for an integer n
RECURSIVE Str(_)
Str(n) ==
    IF n < 0 THEN <<"-">> \o Str(-n)
    ELSE IF n < 10 THEN <<Digits[n + 1]>>
    ELSE Str(n \div 10) \o <<Digits[(n % 10) + 1]>>

RECURSIVE LStrip(_)
LStrip(s) == IF s # <<>> /\ IsSpace(Head(s)) THEN LStrip(Tail(s)) ELSE s

RECURSIVE RStrip(_)
RStrip(s) ==
    IF s # <<>> /\ IsSpace(s[Len(s)]) THEN RStrip(SubSeq(s, 1, Len(s) - 1)) ELSE s

\* s.strip()
Strip(s) == RStrip(LStrip(s))

RECURSIVE DigitsValue(_)
DigitsValue(s) ==
    IF s = <<>> THEN 0
    ELSE 10 * DigitsValue(SubSeq(s, 1, Len(s) - 1)) + DigitVal(s[Len(s)])

\* int(s) accepts an optional sign followed by one or more digits, with
\* surrounding whitespace; anything else raises ValueError.
IntBody(s) ==
    LET t == Strip(s)
    IN  IF t # <<>> /\ Head(t) \in {"-", "+"} THEN Tail(t) ELSE t

IsIntLiteral(s) ==
    /\ IntBody(s) # <<>>
    /\ \A i \in 1..Len(IntBody(s)) : IsDigit(IntBody(s)[i])

IntOf(s) ==
    LET t == Strip(s)
    IN  IF Head(t) = "-" THEN 0 - DigitsValue(IntBody(s)) ELSE DigitsValue(IntBody(s))

\* s.split(): the whitespace-separated words of s
RECURSIVE Words(_)
Words(s) ==
    LET t == LStrip(s)
        n == IF \E i \in 1..Len(t) : IsSpace(t[i])
             THEN (CHOOSE i \in 1..Len(t) :
                      IsSpace(t[i]) /\ \A j \in 1..(i - 1) : ~IsSpace(t[j])) - 1
             ELSE Len(t)
    IN  IF t = <<>> THEN <<>>
        ELSE <<SubSeq(t, 1, n)>> \o Words(SubSeq(t, n + 1, Len(t)))

\* ------------------------------------------------------------------------
\* Order-text segmentation: re.split(r'✅Name\s+:', orders_text)
\* ------------------------------------------------------------------------

\* Number of whitespace tokens of s starting at position i
RECURSIVE SpaceRun(_, _)
SpaceRun(s, i) == IF i <= Len(s) /\ IsSpace(s[i]) THEN 1 + SpaceRun(s, i + 1) ELSE 0

\* A variant of DelimiterAt that matches one whitespace character only
\* (✅Name\s: instead of ✅Name\s+:)
DelimiterAtOneSpace(s, i) ==
    IF i + 2 <= Len(s) /\ s[i] = "Name" /\ IsSpace(s[i + 1]) /\ s[i + 2] = ":"
    THEN 3
    ELSE 0

\* Length of the match of ✅Name\s+: at position i of s, 0 when there is none
DelimiterAt(s, i) ==
    IF /\ i <= Len(s)
       /\ s[i] = "Name"
       /\ SpaceRun(s, i + 1) >= 1
       /\ i + 1 + SpaceRun(s, i + 1) <= Len(s)
       /\ s[i + 1 + SpaceRun(s, i + 1)] = ":"
    THEN 2 + SpaceRun(s, i + 1)
    ELSE 0

\* re.split: the pieces between the leftmost non-overlapping matches
RECURSIVE SplitFrom(_, _, _)
SplitFrom(s, i, piece) ==
    IF i > Len(s) THEN <<piece>>
    ELSE IF DelimiterAt(s, i) > 0
         THEN <<piece>> \o SplitFrom(s, i + DelimiterAt(s, i), <<>>)
         ELSE SplitFrom(s, i + 1, Append(piece, s[i]))

ReSplit(s) == SplitFrom(s, 1, <<>>)

\* [o.strip() for o in raw_orders if o.strip()]
RECURSIVE StripNonEmpty(_)
StripNonEmpty(raw) ==
    IF raw = <<>> THEN <<>>
    ELSE IF Strip(Head(raw)) # <<>>
         THEN <<Strip(Head(raw))>> \o StripNonEmpty(Tail(raw))
         ELSE StripNonEmpty(Tail(raw))

\* The orders of a submitted text (lines 264-268)
Orders(text) == StripNonEmpty(ReSplit(Strip(text)))

\* ------------------------------------------------------------------------
\* JSON values of the model's answer
\* ------------------------------------------------------------------------

\* A scalar read from the parsed JSON: t is "missing" (the key is absent),
\* "null", "str" (s holds its tokens) or "num" (n holds the number; money is
\* held in cents).
Missing == [t |-> "missing", s |-> <<>>, n |-> 0]
Null == [t |-> "null", s |-> <<>>, n |-> 0]
StrV(s) == [t |-> "str", s |-> s, n |-> 0]
NumV(n) == [t |-> "num", s |-> <<>>, n |-> n]

\* An element of "items": a JSON object (dict) or anything else.
Item(desc, qty, price, amount) ==
    [dict |-> TRUE, description |-> desc, quantity |-> qty,
     unit_price |-> price, amount |-> amount]
NonDictItem == [dict |-> FALSE, description |-> Missing, quantity |-> Missing,
                unit_price |-> Missing, amount |-> Missing]

\* "items": absent, null, a non-empty string, or a list.
ItemsMissing == [t |-> "missing", elems |-> <<>>]
ItemsNull == [t |-> "null", elems |-> <<>>]
ItemsStr == [t |-> "str", elems |-> <<>>]
ItemsList(elems) == [t |-> "list", elems |-> elems]

\* "summary": absent, null, or an object with its four fields.
SummaryMissing == [t |-> "missing", Subtotal |-> Missing, Tax |-> Missing,
                   Shipping |-> Missing, Total |-> Missing]
SummaryNull == [t |-> "null", Subtotal |-> Missing, Tax |-> Missing,
                Shipping |-> Missing, Total |-> Missing]
SummaryDict(sub, tax, ship, total) ==
    [t |-> "dict", Subtotal |-> sub, Tax |-> tax, Shipping |-> ship, Total |-> total]

\* What json.loads returns: a dict with the keys the code reads, or a value
\* that is no dict (a JSON number, string, list, ...).
Dict(bill_to, items, summary) ==
    [dict |-> TRUE, bill_to |-> bill_to, items |-> items, summary |-> summary,
     delivery_summary |-> <<>>]
EmptyDict == Dict(Missing, ItemsMissing, SummaryMissing)
NonDict == [dict |-> FALSE, bill_to |-> Missing, items |-> ItemsMissing,
            summary |-> SummaryMissing, delivery_summary |-> <<>>]

\* ------------------------------------------------------------------------
\* generate_invoice: the parsing step (lines 113-124)
\* ------------------------------------------------------------------------
\* A response text is a sequence of the tokens
\*   "{" "}"  braces
\*   "m"      the members of a JSON object (they stand for the object `json`
\*            of the response)
\*   "s"      a JSON scalar
\*   "t"      prose that is not JSON

\* json.loads(text) succeeds
JsonValid(text) == text \in {<<"{", "}">>, <<"{", "m", "}">>, <<"s">>}

\* json.loads(text) for a valid text whose members stand for json
JsonLoads(text, json) ==
    IF text = <<"{", "m", "}">> THEN json
    ELSE IF text = <<"{", "}">> THEN EmptyDict
    ELSE NonDict

\* re.search(r'(\{.*\})', content, re.DOTALL): from the first "{" to the
\* last "}" after it
HasBraces(content) ==
    \E i, j \in 1..Len(content) : i < j /\ content[i] = "{" /\ content[j] = "}"

FirstOpen(content) ==
    CHOOSE i \in 1..Len(content) :
        content[i] = "{" /\ \A k \in 1..(i - 1) : content[k] # "{"

LastClose(content) ==
    CHOOSE j \in 1..Len(content) :
        content[j] = "}" /\ \A k \in (j + 1)..Len(content) : content[k] # "}"

BraceMatch(content) == SubSeq(content, FirstOpen(content), LastClose(content))

Returned(data) == [kind |-> "return", exc |-> "", data |-> data]
Raised(exc) == [kind |-> "raise", exc |-> exc, data |-> NonDict]

\* Lines 116-124: the outcome of the parsing step
ParseResponse(content, json) ==
    IF JsonValid(content) THEN Returned(JsonLoads(content, json))
    ELSE IF HasBraces(content)
         THEN IF JsonValid(BraceMatch(content))
              THEN Returned(JsonLoads(BraceMatch(content), json))
              ELSE Raised("JSONDecodeError")
         ELSE Raised("HTTP400")

\* ------------------------------------------------------------------------
\* generate_invoice: the formatting step (lines 126-148)
\* ------------------------------------------------------------------------

\* str(v) inside an f-string, with the default of item.get(key, default)
Show(v, default) ==
    IF v.t = "missing" THEN default
    ELSE IF v.t = "null" THEN <<"None">>
    ELSE IF v.t = "num" THEN Str(v.n)
    ELSE v.s

\* float(s) accepts digits with an optional fraction (and an optional sign)
FloatBody(s) == IF s # <<>> /\ Head(s) \in {"-", "+"} THEN Tail(s) ELSE s

DotAt(s) == IF \E i \in 1..Len(s) : s[i] = "." THEN CHOOSE i \in 1..Len(s) : s[i] = "." ELSE 0

IsFloatLiteral(s) ==
    LET b == FloatBody(Strip(s))
    IN  /\ \E i \in 1..Len(b) : IsDigit(b[i])
        /\ \A i \in 1..Len(b) : IsDigit(b[i]) \/ i = DotAt(b)

\* The value of a float literal, in cents (fractions beyond the second
\* digit are dropped)
FloatCents(s) ==
    LET b == FloatBody(Strip(s))
        d == DotAt(b)
        whole == IF d = 0 THEN b ELSE SubSeq(b, 1, d - 1)
        frac == IF d = 0 THEN <<>> ELSE SubSeq(b, d + 1, Len(b))
        two == SubSeq(frac \o <<"0", "0">>, 1, 2)
        v == 100 * DigitsValue(whole) + DigitsValue(two)
    IN  IF Head(Strip(s)) = "-" THEN 0 - v ELSE v

\* f"{x:.2f}" of an amount in cents
Money(c) ==
    IF c < 0 THEN <<"-">> \o Str((0 - c) \div 100) \o <<".">>
                  \o <<Digits[(((0 - c) % 100) \div 10) + 1], Digits[((0 - c) % 10) + 1]>>
    ELSE Str(c \div 100) \o <<".">>
         \o <<Digits[((c % 100) \div 10) + 1], Digits[(c % 10) + 1]>>

\* The exception raised by the loop over data.get('items', []) with
\* item.get(...), "" when there is none (lines 129-132)
ItemsLoopError(items) ==
    IF items.t = "null" THEN "TypeError"
    ELSE IF items.t = "str" THEN "AttributeError"
    ELSE IF \E i \in 1..Len(items.elems) : ~items.elems[i].dict THEN "AttributeError"
    ELSE ""

\* f"{qty} x {desc}" (lines 130-132)
ItemLine(item) == Show(item.quantity, <<"1">>) \o <<" x ">> \o Show(item.description, <<>>)

\* ", ".join(item_descriptions) (line 134)
RECURSIVE JoinItems(_)
JoinItems(elems) ==
    IF elems = <<>> THEN <<>>
    ELSE IF Len(elems) = 1 THEN ItemLine(elems[1])
    ELSE ItemLine(elems[1]) \o <<", ">> \o JoinItems(Tail(elems))

\* data['bill_to'].split()[-1] (line 135)
BillToError(bill_to) ==
    IF bill_to.t = "missing" THEN "KeyError"
    ELSE IF bill_to.t # "str" THEN "AttributeError"
    ELSE IF Words(bill_to.s) = <<>> THEN "IndexError"
    ELSE ""

ContactInfo(bill_to) == Words(bill_to.s)[Len(Words(bill_to.s))]

\* data['summary']['Total'] (line 136) and float(total_str) (line 143)
TotalError(summary) ==
    IF summary.t = "missing" THEN "KeyError"
    ELSE IF summary.t = "null" THEN "TypeError"
    ELSE IF summary.Total.t = "missing" THEN "KeyError"
    ELSE IF summary.Total.t = "null" THEN "TypeError"
    ELSE IF summary.Total.t = "str" /\ ~IsFloatLiteral(summary.Total.s) THEN "ValueError"
    ELSE ""

TotalCents(total) == IF total.t = "num" THEN total.n ELSE FloatCents(total.s)

\* The first exception raised inside the try block of lines 127-144
SummaryError(data) ==
    IF ~data.dict THEN "AttributeError"
    ELSE IF ItemsLoopError(data.items) # "" THEN ItemsLoopError(data.items)
    ELSE IF BillToError(data.bill_to) # "" THEN BillToError(data.bill_to)
    ELSE TotalError(data.summary)

\* The string of lines 138-144 ("Delivery " stands for "Delivery 🚚 ")
DerivedSummary(data, invoice_number) ==
    <<"Delivery ">> \o Str(invoice_number) \o <<"\n\n">>
    \o JoinItems(data.items.elems) \o <<"\n\n">>
    \o <<"Address: ">> \o data.bill_to.s \o <<"\n\n">>
    \o <<"Contact: ">> \o ContactInfo(data.bill_to) \o <<"\n\n">>
    \o <<"Total: $">> \o Money(TotalCents(data.summary.Total))

ErrorSummary == <<"Error building delivery summary">>

\* except (KeyError, IndexError, TypeError) (line 145)
Caught == {"KeyError", "IndexError", "TypeError"}

\* Lines 126-148: the outcome of the formatting step on a parsed value
BuildSummary(data, invoice_number) ==
    IF SummaryError(data) = ""
    THEN Returned([data EXCEPT !.delivery_summary = DerivedSummary(data, invoice_number)])
    ELSE IF SummaryError(data) \in Caught
         THEN Returned([data EXCEPT !.delivery_summary = ErrorSummary])
         ELSE Raised(SummaryError(data))

\* Lines 113-148: what generate_invoice does with the text the service
\* returned
GenerateFromContent(content, json, invoice_number) ==
    IF ParseResponse(content, json).kind = "return"
    THEN BuildSummary(ParseResponse(content, json).data, invoice_number)
    ELSE ParseResponse(content, json)

\* ------------------------------------------------------------------------
\* create_pdf (lines 153-255)
\* ------------------------------------------------------------------------

\* f"${float(x):.2f}" of item.get(key, 0.0) (lines 217, 221)
FloatError(v) ==
    IF v.t = "null" THEN "TypeError"
    ELSE IF v.t = "str" /\ ~IsFloatLiteral(v.s) THEN "ValueError"
    ELSE ""

\* f"${summary.get(key, default):.2f}" (lines 230-242)
FormatError(v) ==
    IF v.t = "null" THEN "TypeError"
    ELSE IF v.t = "str" THEN "ValueError"
    ELSE ""

\* pdf.multi_cell(w, h, txt) needs a string
TextError(v) == IF v.t \in {"null", "num"} THEN "AttributeError" ELSE ""

ItemRowError(item) ==
    IF ~item.dict THEN "AttributeError"
    ELSE IF TextError(item.description) # "" THEN TextError(item.description)
    ELSE IF FloatError(item.unit_price) # "" THEN FloatError(item.unit_price)
    ELSE FloatError(item.amount)

ItemRowsError(items) ==
    IF items.t = "null" THEN "TypeError"
    ELSE IF items.t = "str" THEN "AttributeError"
    ELSE IF \E i \in 1..Len(items.elems) : ItemRowError(items.elems[i]) # ""
         THEN ItemRowError(items.elems[
                  CHOOSE i \in 1..Len(items.elems) :
                      /\ ItemRowError(items.elems[i]) # ""
                      /\ \A j \in 1..(i - 1) : ItemRowError(items.elems[j]) = ""])
         ELSE ""

SummaryRowsError(summary) ==
    IF summary.t = "null" THEN "AttributeError"
    ELSE IF FormatError(summary.Subtotal) # "" THEN FormatError(summary.Subtotal)
    ELSE IF FormatError(summary.Tax) # "" THEN FormatError(summary.Tax)
    ELSE IF FormatError(summary.Shipping) # "" THEN FormatError(summary.Shipping)
    ELSE FormatError(summary.Total)

\* The exception create_pdf raises before pdf.output, "" when it writes the
\* file
PdfError(data) ==
    IF ~data.dict THEN "AttributeError"
    ELSE IF TextError(data.bill_to) # "" THEN TextError(data.bill_to)
    ELSE IF ItemRowsError(data.items) # "" THEN ItemRowsError(data.items)
    ELSE SummaryRowsError(data.summary)

\* filename = f"invoices/Invoice_{invoice_number}.pdf" (line 253)
PdfPath(invoice_number) ==
    <<"invoices", "/", "Invoice_">> \o Str(invoice_number) \o <<".pdf">>

\* os.path.basename(path): what follows the last "/"
RECURSIVE Basename(_)
Basename(path) ==
    IF \E i \in 1..Len(path) : path[i] = "/" THEN Basename(Tail(path)) ELSE path

\* pdf_url = f"/invoices/{os.path.basename(pdf_path)}" (line 275)
PdfUrl(pdf_path) == <<"/", "invoices", "/">> \o Basename(pdf_path)

\* ------------------------------------------------------------------------
\* Inputs
\* ------------------------------------------------------------------------

\* The pieces order texts are made of: ordinary text, whitespace, the
\* delimiter with one and with two whitespace characters, and "✅Name:"
\* without whitespace.
Chunks ==
    {<<"a">>, <<" ">>, <<"Name", " ", ":">>, <<"Name", " ", " ", ":">>, <<"Name", ":">>}

RECURSIVE TextsOf(_)
TextsOf(n) ==
    IF n = 0 THEN {<<>>}
    ELSE TextsOf(n - 1) \cup {t \o c : t \in TextsOf(n - 1), c \in Chunks}

\* request.form.get("order_details", "")
Texts == TextsOf(MaxChunks)

\* Two order texts, of one order and of two orders, for the runs of several
\* requests
ShortTexts == {<<"a">>, <<"a", "Name", " ", ":", "a">>}

GoodBillTo == StrV(<<"12", " ", "Main", " ", "St", " ", "555-0100">>)
GoodItem == Item(StrV(<<"Gray", " ", "Sofa">>), NumV(2), NumV(10000), NumV(20000))
BareItem == Item(Missing, Missing, Missing, Missing)
BadPriceItem == Item(StrV(<<"Bed">>), NumV(1), StrV(<<"$", "9">>), Null)
GoodSummary == SummaryDict(NumV(20000), NumV(1650), NumV(6900), NumV(28550))

BillTos == {Missing, Null, NumV(5550100), StrV(<<>>), StrV(<<" ">>), GoodBillTo}

ItemLists ==
    {ItemsMissing, ItemsNull, ItemsStr, ItemsList(<<>>), ItemsList(<<GoodItem>>),
     ItemsList(<<GoodItem, BareItem>>), ItemsList(<<NonDictItem>>),
     ItemsList(<<BadPriceItem>>)}

Summaries ==
    {SummaryMissing, SummaryNull, GoodSummary,
     SummaryDict(Missing, Missing, Missing, Missing),
     SummaryDict(Missing, Missing, Missing, NumV(6900)),
     SummaryDict(NumV(20000), NumV(1650), NumV(6900), Null),
     SummaryDict(NumV(20000), NumV(1650), NumV(6900), StrV(<<"2", "8", "5", ".", "5">>)),
     SummaryDict(NumV(20000), NumV(1650), NumV(6900), StrV(<<"N", "/", "A">>)),
     SummaryDict(StrV(<<"2", "0", "0">>), NumV(1650), NumV(6900), NumV(28550))}

\* The JSON objects the service may answer with
Records == {Dict(b, i, u) : b \in BillTos, i \in ItemLists, u \in Summaries}

Tokens == {"{", "}", "m", "s", "t"}

RECURSIVE ContentsOf(_)
ContentsOf(n) ==
    IF n = 0 THEN {<<>>}
    ELSE ContentsOf(n - 1) \cup {Append(c, k) : c \in ContentsOf(n - 1), k \in Tokens}

\* response.choices[0].message.content.strip()
Contents == ContentsOf(MaxContent)

\* What the outbound call of a request gives: an exception of the client
\* library, or a text (with the object its members stand for)
ApiError == [api_error |-> TRUE, content |-> <<>>, json |-> EmptyDict]
Answer(content, json) == [api_error |-> FALSE, content |-> content, json |-> json]

Answers ==
    {ApiError,
     Answer(<<"{", "m", "}">>, Dict(GoodBillTo, ItemsList(<<GoodItem>>), GoodSummary)),
     Answer(<<"t", "{", "m", "}", "t">>,
            Dict(GoodBillTo, ItemsList(<<GoodItem, BareItem>>), GoodSummary)),
     Answer(<<"{", "m", "}">>, Dict(StrV(<<>>), ItemsList(<<GoodItem>>), GoodSummary)),
     Answer(<<"{", "m", "}">>, Dict(GoodBillTo, ItemsNull, GoodSummary)),
     Answer(<<"{", "m", "}">>,
            Dict(GoodBillTo, ItemsMissing,
                 SummaryDict(Missing, Missing, Missing, StrV(<<"N", "/", "A">>)))),
     Answer(<<"t">>, EmptyDict),
     Answer(<<"t", "{", "t", "}">>, EmptyDict)}

\* Three answers, for the runs of several requests: one that succeeds, one
\* that aborts in generate_invoice and one that aborts in create_pdf
ShortAnswers ==
    {Answer(<<"{", "m", "}">>, Dict(GoodBillTo, ItemsList(<<GoodItem>>), GoodSummary)),
     Answer(<<"t">>, EmptyDict),
     Answer(<<"{", "m", "}">>, Dict(GoodBillTo, ItemsNull, GoodSummary))}

\* ------------------------------------------------------------------------
\* State
\* ------------------------------------------------------------------------

\* The request handlers (threads of the server), one request each
Procs == {"p1", "p2"}

VARIABLES
    file,            \* invoice_number.txt: whether it exists, and its text
    invoices,        \* invoices/: file path -> number of times it was written
    pc,              \* where each handler is
    form,            \* request.form["order_details"] of each request
    orders_text,     \* index(): the submitted text, stripped
    orders,          \* index(): the orders still to process, and done
    idx,             \* index(): position of the current order in orders
    current_num,     \* get_next_invoice_number(): what it read
    invoice_number,  \* the number the current call computed / returned
    data,            \* index(): what generate_invoice returned
    results,         \* index(): the results so far
    response,        \* what the client received
    outbound,        \* history: the outbound calls of the request (order, number)
    allocated,       \* history: numbers get_next_invoice_number returned to the request
    at_start,        \* history: the counter file when the request began
    at_call,         \* history: the counter file when the current call began
    issued,          \* history: every call that returned, in order of return
    gen              \* generate_invoice applied to one response on its own

vars == <<file, invoices, pc, form, orders_text, orders, idx, current_num,
          invoice_number, data, results, response, outbound, allocated, at_start,
          at_call, issued, gen>>

NoFile == [exists |-> FALSE, text |-> <<>>]
File(text) == [exists |-> TRUE, text |-> text]

\* The counter file before the server starts: absent, left by an earlier
\* run, or damaged / edited by hand
InitFiles ==
    {NoFile, File(Str(StartNumber)), File(Str(StartNumber + 1) \o <<"\n">>),
     File(<<>>), File(<<"o", "o", "p", "s">>), File(<<"9">>)}

NoResponse == [status |-> 0, rendered |-> "", results |-> <<>>]

NoGen == [stage |-> "off", content |-> <<>>, json |-> EmptyDict, number |-> 0,
          parsed |-> NonDict, out |-> Raised("")]

InitHandlers ==
    /\ invoices = <<>>
    /\ pc = [p \in Procs |-> "idle"]
    /\ form = [p \in Procs |-> <<>>]
    /\ orders_text = [p \in Procs |-> <<>>]
    /\ orders = [p \in Procs |-> <<>>]
    /\ idx = [p \in Procs |-> 0]
    /\ current_num = [p \in Procs |-> <<>>]
    /\ invoice_number = [p \in Procs |-> 0]
    /\ data = [p \in Procs |-> NonDict]
    /\ results = [p \in Procs |-> <<>>]
    /\ response = [p \in Procs |-> NoResponse]
    /\ outbound = [p \in Procs |-> <<>>]
    /\ allocated = [p \in Procs |-> <<>>]
    /\ at_start = [p \in Procs |-> NoFile]
    /\ at_call = [p \in Procs |-> NoFile]
    /\ issued = <<>>

Init ==
    /\ file \in InitFiles
    /\ InitHandlers
    /\ gen = NoGen

\* ------------------------------------------------------------------------
\* get_next_invoice_number (lines 28-45)
\* ------------------------------------------------------------------------

\* Variants of NextNumber: one that forgets the increment, one that falls
\* back to the start number, one that skips a number
NextNumberStale(num) == IF IsIntLiteral(num) THEN IntOf(num) ELSE FallbackNumber

NextNumberFromStart(num) == IF IsIntLiteral(num) THEN IntOf(num) + 1 ELSE StartNumber

NextNumberSkip(num) == IF IsIntLiteral(num) THEN IntOf(num) + 2 ELSE FallbackNumber

\* Lines 37-40: int(current_num) + 1, or the fallback on ValueError
NextNumber(num) == IF IsIntLiteral(num) THEN IntOf(num) + 1 ELSE FallbackNumber

\* A buffered write through a handle opened at offset 0, flushed on close:
\* it replaces the first Len(text) characters of what the file holds then
Overwrite(old, text) == text \o SubSeq(old, Len(text) + 1, Len(old))

\* Line 30: os.path.exists(invoice_file)
CheckExists(p) ==
    /\ pc[p] = "gn_exists"
    /\ pc' = [pc EXCEPT ![p] = IF file.exists THEN "gn_read" ELSE "gn_create"]
    /\ at_call' = [at_call EXCEPT ![p] = file]
    /\ UNCHANGED <<file, invoices, form, orders_text, orders, idx, current_num,
                   invoice_number, data, results, response, outbound, allocated,
                   at_start, issued, gen>>

\* Line 31: open(invoice_file, "w") creates the file, or truncates it
CreateFile(p) ==
    /\ pc[p] = "gn_create"
    /\ file' = File(<<>>)
    /\ pc' = [pc EXCEPT ![p] = "gn_init"]
    /\ UNCHANGED <<invoices, form, orders_text, orders, idx, current_num,
                   invoice_number, data, results, response, outbound, allocated,
                   at_start, at_call, issued, gen>>

\* Line 32: f.write("2500"), flushed when the with block closes the file
WriteStart(p) ==
    /\ pc[p] = "gn_init"
    /\ file' = File(Overwrite(file.text, Str(StartNumber)))
    /\ pc' = [pc EXCEPT ![p] = "gn_read"]
    /\ UNCHANGED <<invoices, form, orders_text, orders, idx, current_num,
                   invoice_number, data, results, response, outbound, allocated,
                   at_start, at_call, issued, gen>>

\* Lines 34-40: read the file, strip, and compute the number
ReadNumber(p) ==
    /\ pc[p] = "gn_read"
    /\ current_num' = [current_num EXCEPT ![p] = Strip(file.text)]
    /\ invoice_number' = [invoice_number EXCEPT ![p] = NextNumber(Strip(file.text))]
    /\ pc' = [pc EXCEPT ![p] = "gn_open"]
    /\ UNCHANGED <<file, invoices, form, orders_text, orders, idx, data, results,
                   response, outbound, allocated, at_start, at_call, issued, gen>>

\* Line 42: open(invoice_file, "w") truncates the file
TruncateFile(p) ==
    /\ pc[p] = "gn_open"
    /\ file' = File(<<>>)
    /\ pc' = [pc EXCEPT ![p] = "gn_write"]
    /\ UNCHANGED <<invoices, form, orders_text, orders, idx, current_num,
                   invoice_number, data, results, response, outbound, allocated,
                   at_start, at_call, issued, gen>>

\* Lines 43-45: f.write(str(invoice_number)), flushed on close, and return
WriteNumber(p) ==
    /\ pc[p] = "gn_write"
    /\ file' = File(Overwrite(file.text, Str(invoice_number[p])))
    /\ issued' = Append(issued, [number |-> invoice_number[p], by |-> p,
                                  saw |-> at_call[p], read |-> current_num[p]])
    /\ allocated' = [allocated EXCEPT ![p] = Append(@, invoice_number[p])]
    /\ pc' = [pc EXCEPT ![p] = "generate"]
    /\ UNCHANGED <<invoices, form, orders_text, orders, idx, current_num,
                   invoice_number, data, results, response, outbound, at_start, at_call,
                   gen>>

\* ------------------------------------------------------------------------
\* index() (lines 260-286)
\* ------------------------------------------------------------------------

\* abort(400, ...) answers 400; any other exception leaves the handler and
\* the server answers 500
StatusOf(exc) == IF exc = "HTTP400" THEN 400 ELSE 500

Failed(exc) == [status |-> StatusOf(exc), rendered |-> exc, results |-> <<>>]

\* Lines 285-286: a GET shows the form
GetForm(p) ==
    /\ pc[p] = "idle"
    /\ response' = [response EXCEPT ![p] =
                       [status |-> 200, rendered |-> "form", results |-> <<>>]]
    /\ pc' = [pc EXCEPT ![p] = "done"]
    /\ UNCHANGED <<file, invoices, form, orders_text, orders, idx, current_num,
                   invoice_number, data, results, outbound, allocated, at_start,
                   at_call, issued, gen>>

\* Lines 262-270: a POST of text; split it into orders and start the loop
StartPost(p, text) ==
    /\ pc[p] = "idle"
    /\ form' = [form EXCEPT ![p] = text]
    /\ at_start' = [at_start EXCEPT ![p] = file]
    /\ orders_text' = [orders_text EXCEPT ![p] = Strip(text)]
    /\ orders' = [orders EXCEPT ![p] = Orders(text)]
    /\ results' = [results EXCEPT ![p] = <<>>]
    /\ idx' = [idx EXCEPT ![p] = 1]
    /\ pc' = [pc EXCEPT ![p] = IF Orders(text) = <<>> THEN "respond" ELSE "gn_exists"]
    /\ UNCHANGED <<file, invoices, current_num, invoice_number, data, response,
                   outbound, allocated, at_call, issued, gen>>

Post(p) == \E text \in Texts : StartPost(p, text)

PostShort(p) == \E text \in ShortTexts : StartPost(p, text)

\* A variant of GenerateWith that asks the service again when the answer
\* does not parse
GenerateWithRetry(p, answer) ==
    LET out == IF answer.api_error THEN Raised("APIError")
               ELSE GenerateFromContent(answer.content, answer.json, invoice_number[p])
        call == [order |-> orders[p][idx[p]], number |-> invoice_number[p]]
    IN  /\ pc[p] = "generate"
        /\ outbound' = [outbound EXCEPT ![p] =
                            IF out.kind = "raise" /\ out.exc \in {"HTTP400", "JSONDecodeError"}
                            THEN @ \o <<call, call>>
                            ELSE Append(@, call)]
        /\ IF out.kind = "return"
           THEN /\ data' = [data EXCEPT ![p] = out.data]
                /\ pc' = [pc EXCEPT ![p] = "create_pdf"]
                /\ UNCHANGED response
           ELSE /\ response' = [response EXCEPT ![p] = Failed(out.exc)]
                /\ pc' = [pc EXCEPT ![p] = "done"]
                /\ UNCHANGED data
        /\ UNCHANGED <<file, invoices, form, orders_text, orders, idx, current_num,
                       invoice_number, results, allocated, at_start, at_call, issued,
                       gen>>

\* A variant of GenerateWith that gives the invoice number back when the
\* order fails: it restores the counter file
GenerateWithRollback(p, answer) ==
    LET out == IF answer.api_error THEN Raised("APIError")
               ELSE GenerateFromContent(answer.content, answer.json, invoice_number[p])
    IN  /\ pc[p] = "generate"
        /\ outbound' = [outbound EXCEPT ![p] =
                            Append(@, [order |-> orders[p][idx[p]],
                                       number |-> invoice_number[p]])]
        /\ IF out.kind = "return"
           THEN /\ data' = [data EXCEPT ![p] = out.data]
                /\ pc' = [pc EXCEPT ![p] = "create_pdf"]
                /\ UNCHANGED <<response, file>>
           ELSE /\ response' = [response EXCEPT ![p] = Failed(out.exc)]
                /\ pc' = [pc EXCEPT ![p] = "done"]
                /\ file' = File(Str(invoice_number[p] - 1))
                /\ UNCHANGED data
        /\ UNCHANGED <<invoices, form, orders_text, orders, idx, current_num,
                       invoice_number, results, allocated, at_start, at_call, issued,
                       gen>>

\* Line 273: generate_invoice(single_order_text, invoice_number): one
\* outbound call (lines 107-111), then parsing and formatting
GenerateWith(p, answer) ==
    LET out == IF answer.api_error THEN Raised("APIError")
               ELSE GenerateFromContent(answer.content, answer.json, invoice_number[p])
    IN  /\ pc[p] = "generate"
        /\ outbound' = [outbound EXCEPT ![p] =
                            Append(@, [order |-> orders[p][idx[p]],
                                       number |-> invoice_number[p]])]
        /\ IF out.kind = "return"
           THEN /\ data' = [data EXCEPT ![p] = out.data]
                /\ pc' = [pc EXCEPT ![p] = "create_pdf"]
                /\ UNCHANGED response
           ELSE /\ response' = [response EXCEPT ![p] = Failed(out.exc)]
                /\ pc' = [pc EXCEPT ![p] = "done"]
                /\ UNCHANGED data
        /\ UNCHANGED <<file, invoices, form, orders_text, orders, idx, current_num,
                       invoice_number, results, allocated, at_start, at_call, issued,
                       gen>>

GenerateInvoice(p) == \E answer \in Answers : GenerateWith(p, answer)

GenerateShort(p) == \E answer \in ShortAnswers : GenerateWith(p, answer)

\* pdf.output(filename) (line 254)
WritePdf(dir, path) ==
    IF path \in DOMAIN dir THEN [dir EXCEPT ![path] = @ + 1] ELSE dir @@ (path :> 1)

\* Lines 277-281
Result(number, pdf_path, d) ==
    [invoice_number |-> number, pdf_url |-> PdfUrl(pdf_path),
     delivery_summary |-> d.delivery_summary]

\* Lines 274-281: create_pdf writes the file, the result is appended and
\* the loop goes on to the next order
CreatePdf(p) ==
    /\ pc[p] = "create_pdf"
    /\ IF PdfError(data[p]) = ""
       THEN /\ invoices' = WritePdf(invoices, PdfPath(invoice_number[p]))
            /\ results' = [results EXCEPT ![p] =
                              Append(@, Result(invoice_number[p],
                                               PdfPath(invoice_number[p]), data[p]))]
            /\ idx' = [idx EXCEPT ![p] = @ + 1]
            /\ pc' = [pc EXCEPT ![p] =
                         IF idx[p] < Len(orders[p]) THEN "gn_exists" ELSE "respond"]
            /\ UNCHANGED response
       ELSE /\ response' = [response EXCEPT ![p] = Failed(PdfError(data[p]))]
            /\ pc' = [pc EXCEPT ![p] = "done"]
            /\ UNCHANGED <<invoices, results, idx>>
    /\ UNCHANGED <<file, form, orders_text, orders, current_num, invoice_number, data,
                   outbound, allocated, at_start, at_call, issued, gen>>

\* Line 283: render_template("index.html", results=results)
Respond(p) ==
    /\ pc[p] = "respond"
    /\ response' = [response EXCEPT ![p] =
                       [status |-> 200, rendered |-> "results", results |-> results[p]]]
    /\ pc' = [pc EXCEPT ![p] = "done"]
    /\ UNCHANGED <<file, invoices, form, orders_text, orders, idx, current_num,
                   invoice_number, data, results, outbound, allocated, at_start,
                   at_call, issued, gen>>

\* ------------------------------------------------------------------------
\* Specifications
\* ------------------------------------------------------------------------

\* No other request has been made
Only(p) == \A q \in Procs \ {p} : pc[q] = "idle"

\* No other request is being handled
Alone(p) == \A q \in Procs \ {p} : pc[q] \in {"idle", "done"}

\* One request, executed alone, of any text and with any answer
Next ==
    \/ \E p \in Procs : Only(p) /\ GetForm(p)
    \/ \E p \in Procs : Only(p) /\ Post(p)
    \/ \E p \in Procs : Only(p) /\ CheckExists(p)
    \/ \E p \in Procs : Only(p) /\ CreateFile(p)
    \/ \E p \in Procs : Only(p) /\ WriteStart(p)
    \/ \E p \in Procs : Only(p) /\ ReadNumber(p)
    \/ \E p \in Procs : Only(p) /\ TruncateFile(p)
    \/ \E p \in Procs : Only(p) /\ WriteNumber(p)
    \/ \E p \in Procs : Only(p) /\ GenerateInvoice(p)
    \/ \E p \in Procs : Only(p) /\ CreatePdf(p)
    \/ \E p \in Procs : Only(p) /\ Respond(p)

Spec == Init /\ [][Next]_vars

\* Requests handled one after another
NextSeq ==
    \/ \E p \in Procs : Alone(p) /\ GetForm(p)
    \/ \E p \in Procs : Alone(p) /\ PostShort(p)
    \/ \E p \in Procs : Alone(p) /\ CheckExists(p)
    \/ \E p \in Procs : Alone(p) /\ CreateFile(p)
    \/ \E p \in Procs : Alone(p) /\ WriteStart(p)
    \/ \E p \in Procs : Alone(p) /\ ReadNumber(p)
    \/ \E p \in Procs : Alone(p) /\ TruncateFile(p)
    \/ \E p \in Procs : Alone(p) /\ WriteNumber(p)
    \/ \E p \in Procs : Alone(p) /\ GenerateShort(p)
    \/ \E p \in Procs : Alone(p) /\ CreatePdf(p)
    \/ \E p \in Procs : Alone(p) /\ Respond(p)

SpecSeq == Init /\ [][NextSeq]_vars

\* Requests handled by concurrent threads, interleaved at every access to
\* the counter file
NextConc ==
    \/ \E p \in Procs : GetForm(p)
    \/ \E p \in Procs : PostShort(p)
    \/ \E p \in Procs : CheckExists(p)
    \/ \E p \in Procs : CreateFile(p)
    \/ \E p \in Procs : WriteStart(p)
    \/ \E p \in Procs : ReadNumber(p)
    \/ \E p \in Procs : TruncateFile(p)
    \/ \E p \in Procs : WriteNumber(p)
    \/ \E p \in Procs : GenerateShort(p)
    \/ \E p \in Procs : CreatePdf(p)
    \/ \E p \in Procs : Respond(p)

\* Concurrent requests start from a counter file that is absent or was
\* left by an earlier run
InitConc ==
    /\ file \in {NoFile, File(Str(StartNumber + 1))}
    /\ InitHandlers
    /\ gen = NoGen

SpecConc == InitConc /\ [][NextConc]_vars

\* generate_invoice applied to one response text on its own: the parsing
\* step, then the formatting step

\* The responses whose parsed value is the object their members stand for
UsesJson(content) ==
    ParseResponse(content, Dict(GoodBillTo, ItemsMissing, GoodSummary)).data
        = Dict(GoodBillTo, ItemsMissing, GoodSummary)

JsonsFor(content) == IF UsesJson(content) THEN Records ELSE {EmptyDict}

GenInputs ==
    UNION {{[stage |-> "input", content |-> c, json |-> j, number |-> n,
             parsed |-> NonDict, out |-> Raised("")] :
               j \in JsonsFor(c), n \in {StartNumber + 1, StartNumber + 12}} :
           c \in Contents}

InitGen ==
    /\ file = NoFile
    /\ InitHandlers
    /\ gen \in GenInputs

handlers == <<file, invoices, pc, form, orders_text, orders, idx, current_num,
              invoice_number, data, results, response, outbound, allocated, at_start,
              at_call, issued>>

\* Lines 113-124
GenParse ==
    /\ gen.stage = "input"
    /\ gen' = [gen EXCEPT !.stage = "parsed",
                          !.out = ParseResponse(gen.content, gen.json),
                          !.parsed = ParseResponse(gen.content, gen.json).data]
    /\ UNCHANGED handlers

\* Lines 126-148
GenFormat ==
    /\ gen.stage = "parsed"
    /\ gen.out.kind = "return"
    /\ gen' = [gen EXCEPT !.stage = "formatted",
                          !.out = BuildSummary(gen.parsed, gen.number)]
    /\ UNCHANGED handlers

NextGen == GenParse \/ GenFormat

SpecGen == InitGen /\ [][NextGen]_vars

\* ------------------------------------------------------------------------
\* Properties
\* ------------------------------------------------------------------------

\* The request of p was aborted: no result list was returned
Aborted(p) == pc[p] = "done" /\ response[p].status \in {400, 500}

\* The text of the file invoices/Invoice_n.pdf and of its URL
PathOf(n) == <<"invoices", "/", "Invoice_">> \o Str(n) \o <<".pdf">>
UrlOf(n) == <<"/", "invoices", "/", "Invoice_">> \o Str(n) \o <<".pdf">>

\* A delivery summary derived for invoice number n
IsDerivedFor(summary, n) ==
    /\ Len(summary) > Len(Str(n)) + 1
    /\ SubSeq(summary, 1, Len(Str(n)) + 1) = <<"Delivery ">> \o Str(n)
    /\ summary[Len(Str(n)) + 2] = "\n\n"

\* Positions i..j of s hold a delimiter: "✅Name", whitespace, ":".  The
\* literal delimiter '✅Name :' has exactly one space.
IsDelimiter(s, i, j, literal) ==
    /\ i + 2 <= j
    /\ s[i] = "Name"
    /\ s[j] = ":"
    /\ \A k \in (i + 1)..(j - 1) : IsSpace(s[k])
    /\ literal => j = i + 2

HasDelimiterFrom(s, from, literal) ==
    \E i \in from..Len(s), j \in from..Len(s) : IsDelimiter(s, i, j, literal)

\* The segments between the delimiters of s, from position `from` on
RECURSIVE SegmentsFrom(_, _, _)
SegmentsFrom(s, from, literal) ==
    IF HasDelimiterFrom(s, from, literal)
    THEN LET i == CHOOSE i \in from..Len(s) :
                      /\ \E j \in from..Len(s) : IsDelimiter(s, i, j, literal)
                      /\ \A h \in from..(i - 1) :
                             ~\E j \in from..Len(s) : IsDelimiter(s, h, j, literal)
             j == CHOOSE j \in from..Len(s) : IsDelimiter(s, i, j, literal)
         IN  <<SubSeq(s, from, i - 1)>> \o SegmentsFrom(s, j + 1, literal)
    ELSE <<SubSeq(s, from, Len(s))>>

\* The segments that are not empty after trimming, trimmed, in text order
NonEmptySegments(s, literal) ==
    LET kept == SelectSeq(SegmentsFrom(s, 1, literal), LAMBDA x : Strip(x) # <<>>)
    IN  [k \in 1..Len(kept) |-> Strip(kept[k])]

\* Total number of writes to the files of a directory
RECURSIVE WritesOf(_, _)
WritesOf(dir, paths) ==
    IF paths = {} THEN 0
    ELSE LET q == CHOOSE q \in paths : TRUE
         IN  dir[q] + WritesOf(dir, paths \ {q})

Writes(dir) == WritesOf(dir, DOMAIN dir)

\* The result list matches the segments: one result per segment, in order,
\* with the number allocated for it, the URL of a written PDF and a delivery
\* summary of that number; nothing else was allocated or written
ResultsMatch(p, segs, res) ==
    /\ Len(res) = Len(segs)
    /\ Len(allocated[p]) = Len(segs)
    /\ Len(outbound[p]) = Len(segs)
    /\ \A k \in 1..Len(segs) :
           /\ outbound[p][k] = [order |-> segs[k], number |-> allocated[p][k]]
           /\ res[k].invoice_number = allocated[p][k]
           /\ res[k].pdf_url = UrlOf(allocated[p][k])
           /\ PathOf(allocated[p][k]) \in DOMAIN invoices
           /\ \/ IsDerivedFor(res[k].delivery_summary, allocated[p][k])
              \/ res[k].delivery_summary = ErrorSummary
    /\ DOMAIN invoices = {PathOf(allocated[p][k]) : k \in 1..Len(segs)}

C5_OneCallPerOrder ==
    \A p \in Procs :
        /\ Len(outbound[p]) =
               IF pc[p] = "generate" THEN Len(allocated[p]) - 1 ELSE Len(allocated[p])
        /\ \A k \in 1..Len(outbound[p]) :
               outbound[p][k] = [order |-> orders[p][k], number |-> allocated[p][k]]
        /\ Aborted(p) => Len(outbound[p]) = idx[p]
        /\ pc[p] = "respond" =>
               /\ Len(outbound[p]) = Len(orders[p])
               /\ Writes(invoices) = Len(orders[p])
               /\ Cardinality(DOMAIN invoices) = Len(orders[p])

\* C5 witness: a request of two orders, both processed, about to answer
C5_Witness ==
    \E p \in Procs : pc[p] = "respond" /\ Len(orders[p]) = 2 /\ Len(outbound[p]) = 2

\* The file a call saw held an integer / held something else
SawInteger(call) == call.saw.exists /\ IsIntLiteral(call.saw.text)
SawGarbage(call) == call.saw.exists /\ ~IsIntLiteral(call.saw.text)

\* No call is between truncating the counter file and writing it
FileAtRest == \A p \in Procs : pc[p] \notin {"gn_init", "gn_write"}

\* C3: with requests handled one after another, a call that found an integer
\* in the counter file returns that integer plus 1 and leaves the returned
\* value in the file; successive calls return numbers increasing by 1, no
\* number is issued twice and no PDF file is written twice.
C3_SequentialNumbering ==
    /\ \A i \in 1..Len(issued) :
           /\ SawInteger(issued[i]) => issued[i].number = IntOf(issued[i].saw.text) + 1
           /\ i < Len(issued) => issued[i + 1].number = issued[i].number + 1
           /\ \A j \in 1..Len(issued) : issued[j].number = issued[i].number => j = i
    /\ (issued # <<>> /\ FileAtRest) =>
           file = File(Str(issued[Len(issued)].number))
    /\ \A path \in DOMAIN invoices : invoices[path] = 1

\* C3 witness: three calls have returned, the first found an integer
C3_Witness == Len(issued) >= 3 /\ SawInteger(issued[1]) /\ Writes(invoices) >= 2

\* C6 (as stated): when the counter file does not exist, the number the call
\* returns is 2500.
C6_FirstNumberIsStart ==
    \A i \in 1..Len(issued) : ~issued[i].saw.exists => issued[i].number = StartNumber

FirstNumberFrom(f) ==
    IF f.exists /\ IsIntLiteral(f.text) THEN IntOf(f.text) + 1 ELSE 2501

\* C9: with requests handled one after another, each order is processed in
\* the order allocate, call, write, and an abort rolls nothing back: when the
\* k-th order of a request aborts, k numbers have been allocated (the counter
\* advanced k times), the PDFs of orders 1..k-1 are written, no call or PDF
\* exists for a later order, no result list is returned, and the number of
\* order k is never issued again.
C9_NothingRolledBack ==
    \A p \in Procs :
        /\ pc[p] = "create_pdf" =>
               /\ Len(allocated[p]) = idx[p]
               /\ Len(outbound[p]) = idx[p]
               /\ Len(results[p]) = idx[p] - 1
        /\ Aborted(p) =>
               /\ Len(allocated[p]) = idx[p]
               /\ allocated[p][1] = FirstNumberFrom(at_start[p])
               /\ \A k \in 1..(idx[p] - 1) :
                      /\ allocated[p][k + 1] = allocated[p][k] + 1
                      /\ PathOf(allocated[p][k]) \in DOMAIN invoices
               /\ Len(results[p]) = idx[p] - 1
               /\ Len(outbound[p]) = idx[p]
               /\ response[p].results = <<>>
               /\ response[p].rendered # "results"
               /\ PathOf(allocated[p][idx[p]]) \notin DOMAIN invoices
               /\ Cardinality({i \in 1..Len(issued) :
                                   issued[i].number = allocated[p][idx[p]]}) = 1
               /\ (issued[Len(issued)].by = p /\ FileAtRest) =>
                      file = File(Str(allocated[p][idx[p]]))
               /\ (issued[Len(issued)].by # p /\ FileAtRest) =>
                      IntOf(file.text) > allocated[p][idx[p]]

\* C9 witness: the second order of a request aborted, and a later request
\* has been given a number
C9_Witness ==
    \E p \in Procs :
        /\ Aborted(p)
        /\ idx[p] = 2
        /\ \E i \in 1..Len(issued) :
               /\ issued[i].by # p
               /\ \A k \in 1..Len(issued) : issued[k].by = p => k < i

\* The number a call returns is computed from what that call read
FromOwnRead(number, read) ==
    number = IF IsIntLiteral(read) THEN IntOf(read) + 1 ELSE 2501

\* C2: get_next_invoice_number holds no lock between its read and its write:
\* the number a call writes and returns is the one computed from its own
\* read, whatever other calls did to the file in between.
C2_UnsynchronizedReadWrite ==
    /\ \A p \in Procs :
           pc[p] \in {"gn_open", "gn_write"} =>
               FromOwnRead(invoice_number[p], current_num[p])
    /\ \A i \in 1..Len(issued) : FromOwnRead(issued[i].number, issued[i].read)

\* C2 witness: two concurrent requests were given the same number and both
\* wrote invoices/Invoice_n.pdf
C2_Witness ==
    \E i, j \in 1..Len(issued) :
        /\ issued[i].by # issued[j].by
        /\ issued[i].number = issued[j].number
        /\ PathOf(issued[i].number) \in DOMAIN invoices
        /\ invoices[PathOf(issued[i].number)] = 2

\* C10 (as stated): under any interleaving the integer written to the counter
\* file by successive calls never decreases, and 2501 is never returned once a
\* number greater than 2501 has been issued.
C10_CounterNeverDecreases ==
    \A i, j \in 1..Len(issued) :
        i < j =>
            /\ issued[j].number >= issued[i].number
            /\ issued[i].number > 2501 => issued[j].number # 2501

\* C4 (as stated): the parsing step ends with a parsed value or with the
\* abort 400, for every response text.
C4_ParsedOrAbort400 ==
    gen.stage = "parsed" => gen.out.kind = "return" \/ gen.out.exc = "HTTP400"

\* C8 (as stated): when the parsing step yields a record, the formatting
\* step returns, with the derived delivery summary or with the error string.
C8_SummaryOrErrorString ==
    (gen.stage = "formatted" /\ gen.parsed.dict) =>
        /\ gen.out.kind = "return"
        /\ \/ IsDerivedFor(gen.out.data.delivery_summary, gen.number)
           \/ gen.out.data.delivery_summary = ErrorSummary

====
